---- MODULE Spec2Model ----
(***************************************************************************)
(* nodeport-router: the controller's service event handlers               *)
(* (controller/controller.go) driving the router client                   *)
(* (router/router.go, router/scraping.go) against the router's            *)
(* administration console.                                                *)
(***************************************************************************)
EXTENDS Integers, Sequences, FiniteSets, TLC

\* ------------------------------------------------------------------ bounds

\* Rows the router's forwarding table holds; a full table rejects an Add.
MaxRules == 2

\* Router calls of one event that meet a fault of the wire or of the router.
MaxFaults == 1

\* ------------------------------------------------------- strings, numbers

Digits == <<"0", "1", "2", "3", "4", "5", "6", "7", "8", "9">>

\* The decimal digits of a non-negative number.
RECURSIVE decimal(_)
decimal(n) == IF n < 10 THEN Digits[n + 1] ELSE decimal(n \div 10) \o Digits[(n % 10) + 1]

\* The numbers the services and the router's table of the model hold.
KnownNumbers ==
    (0..9) \cup {53, 80, 443, 8080, 8443, 9090, 30053, 30080, 30081, 30090, 30443}

\* Their decimal digits, computed once.
Decimals == [n \in KnownNumbers |-> decimal(n)]

\* fmt.Sprintf("%d", n) for a non-negative n.
Itoa(n) == IF n \in KnownNumbers THEN Decimals[n] ELSE decimal(n)

IsSpace(ch) == ch \in {" ", "\t", "\n", "\r"}

RECURSIVE TrimLeft(_)
TrimLeft(s) ==
    IF Len(s) = 0 THEN s
    ELSE IF IsSpace(SubSeq(s, 1, 1)) THEN TrimLeft(SubSeq(s, 2, Len(s))) ELSE s

RECURSIVE TrimRight(_)
TrimRight(s) ==
    IF Len(s) = 0 THEN s
    ELSE IF IsSpace(SubSeq(s, Len(s), Len(s))) THEN TrimRight(SubSeq(s, 1, Len(s) - 1)) ELSE s

\* strings.TrimSpace
TrimSpace(s) == TrimRight(TrimLeft(s))

SetMin(S) == CHOOSE x \in S : \A y \in S : x <= y
SetMax(S) == CHOOSE x \in S : \A y \in S : x >= y

\* ------------------------------------------------------ Kubernetes services

ServiceTypeNodePort == "NodePort"

\* Controller.DeviceName, the cluster entrypoint as the router knows it.
DeviceName == "bow0"

ServicePort(name, port, targetPort, nodePort) ==
    [Name |-> name, Port |-> port, TargetPort |-> targetPort, NodePort |-> nodePort]

\* The port lists (Spec.Ports) a NodePort service of the model may declare:
\* none, one or two node ports, a target port equal to the port, another one
\* or unset, a port without node port.
NodePortLists ==
    { <<>>,
      << ServicePort("http", 8080, 8080, 30080) >>,
      << ServicePort("http", 9090, 9090, 30090) >>,
      << ServicePort("web", 80, 0, 0) >>,
      << ServicePort("http", 8080, 0, 30080), ServicePort("web", 80, 8080, 30081) >>,
      << ServicePort("http", 9090, 9090, 30090), ServicePort("web", 80, 8443, 30081) >>,
      << ServicePort("dns", 53, 53, 0), ServicePort("http", 8080, 9090, 30080) >> }

\* A ClusterIP service is never allocated a node port.
ClusterIPLists == { << ServicePort("http", 8080, 8080, 0) >> }

\* A LoadBalancer service is allocated node ports like a NodePort service.
LoadBalancerLists == { << ServicePort("http", 8080, 8080, 30080) >> }

ServiceSpecs ==
    [Type : {"NodePort"}, Ports : NodePortLists]
        \cup [Type : {"ClusterIP"}, Ports : ClusterIPLists]
        \cup [Type : {"LoadBalancer"}, Ports : LoadBalancerLists]

\* namespace/name of the services the cluster may hold.
ServiceKeys == { [Namespace |-> "default", Name |-> "myapp"] }

NoService == [Type |-> "none", Ports |-> <<>>]

\* A *corev1.Service as the handlers see it.
Service(key, spec) ==
    [Namespace |-> key.Namespace, Name |-> key.Name, Spec |-> spec]

\* ------------------------------------------------------- controller: pure

\* router.Forward
Forward(publicIP, deviceName, serviceName, ports, devicePort, deleteID) ==
    [PublicIP |-> publicIP, DeviceName |-> deviceName, ServiceName |-> serviceName,
     Ports |-> ports, DevicePort |-> devicePort, DeleteID |-> deleteID]

\* The Forward affectedForwards builds for one port entry of a service.
portForward(service, port) ==
    Forward("", DeviceName, service.Namespace \o "-" \o service.Name \o "-"
                              \o Itoa(port.Port) \o "-" \o Itoa(port.NodePort),
            Itoa(port.Port), Itoa(port.NodePort), "")

RECURSIVE forwardsOf(_, _)
forwardsOf(service, ports) ==
    IF ports = <<>> THEN <<>>
    ELSE IF Head(ports).NodePort = 0 THEN forwardsOf(service, Tail(ports))
    ELSE <<portForward(service, Head(ports))>> \o forwardsOf(service, Tail(ports))

\* affectedForwards building a Forward for a port entry without node port too.
affectedForwards_KeepsZero(service) ==
    [i \in 1..Len(service.Spec.Ports) |-> portForward(service, service.Spec.Ports[i])]

\* Controller.affectedForwards
affectedForwards(service) == forwardsOf(service, service.Spec.Ports)

\* The map nodePortsChanged fills: port name -> "nodePort-port", a later entry
\* of the same name overwriting an earlier one.
portMap(ports) ==
    LET used == {i \in 1..Len(ports) : ports[i].NodePort # 0}
        names == {ports[i].Name : i \in used}
        last(n) == SetMax({i \in used : ports[i].Name = n})
    IN [n \in names |-> Itoa(ports[last(n)].NodePort) \o "-" \o Itoa(ports[last(n)].Port)]

\* Controller.nodePortsChanged
nodePortsChanged(oldService, newService) ==
    portMap(oldService.Spec.Ports) # portMap(newService.Spec.Ports)

\* ------------------------------------------------------- HTML extraction

TextNode(data) == [Type |-> "text", Data |-> data, Name |-> "", Children |-> <<>>]
InputNode(name) == [Type |-> "element", Data |-> "input", Name |-> name, Children |-> <<>>]
ElementNode(tag, children) ==
    [Type |-> "element", Data |-> tag, Name |-> "", Children |-> children]

RECURSIVE getTextContent(_)
RECURSIVE childrenText(_)
\* The loop of getTextContent over a node's children: an input element gives
\* its name attribute, any other child its own text content.
childrenText(children) ==
    IF children = <<>> THEN ""
    ELSE LET c == Head(children)
         IN (IF c.Type = "element" /\ c.Data = "input" THEN c.Name ELSE getTextContent(c))
            \o childrenText(Tail(children))

\* scraping.go getTextContent
getTextContent(n) == IF n.Type = "text" THEN n.Data ELSE childrenText(n.Children)

\* scraping.go extractNonce: the value of the hidden nonce input, "" when the
\* markup holds none (the pattern needs a non-empty value).
extractNonce(page) == page.nonce

\* ------------------------------------------- the router's console (environment)

\* What can happen to one AddForward / DeleteForward call on the wire:
\*   ok                the listing loads, the router accepts the POST
\*   listTransport     GET apphosting.ha fails at transport level
\*   noTable           the page holds no rules table (e.g. the login page)
\*   noNonce           the page holds the table and no nonce field
\*   postTransport     the POST fails at transport level, the router never saw it
\*   rejected          the router refuses the POST: error banner with text
\*   rejectedNoText    the router refuses the POST: error icon, empty text
\*   recheckTransport  the router accepts the POST, the follow-up GET fails
Outcomes ==
    {"ok", "listTransport", "noTable", "noNonce", "postTransport",
     "rejected", "rejectedNoText", "recheckTransport"}

ApphostingPath == "/cgi-bin/apphosting.ha"

\* A rule of the router's table.
Rule(device, serviceName, extPort, intPort) ==
    [device |-> device, publicIP |-> "", serviceName |-> serviceName,
     extPort |-> extPort, intPort |-> intPort]

\* The name of the delete button of the i-th rule listed.
deleteField(i) == "Delete_" \o Itoa(i)

\* A <td> holding text, laid out with the white space of the console's markup.
TextCell(text) == ElementNode("td", <<TextNode(" " \o text \o " ")>>)

\* The table row of the i-th rule: device, public IP, service name, ports,
\* delete button.
RenderRow(rule, i) ==
    << TextCell(rule.device), TextCell(rule.publicIP), TextCell(rule.serviceName),
       TextCell(rule.extPort),
       ElementNode("td", <<TextNode(" "), InputNode(deleteField(i))>>) >>

HeaderRow == <<>>

\* The nonce the router puts into the page it returns to the serial-th
\* request it is sent: a fresh one for every page.
IssuedNonce(serial) == "n" \o Itoa(serial)

\* The page GET apphosting.ha returns to the serial-th request, given what
\* happens to the call.
ListingPage(tbl, out, serial) ==
    [transport |-> out # "listTransport",
     hasTable |-> out # "noTable",
     rows |-> IF out = "noTable" THEN <<>>
              ELSE <<HeaderRow>> \o [i \in 1..Len(tbl) |-> RenderRow(tbl[i], i)],
     nonce |-> IF out = "noNonce" THEN "" ELSE IssuedNonce(serial)]

RemoveAt(seq, i) == SubSeq(seq, 1, i - 1) \o SubSeq(seq, i + 1, Len(seq))

\* Whether the router, left to itself, takes this form.
accepts(form, tbl, out) ==
    /\ out \in {"ok", "recheckTransport"}
    /\ IF form.kind = "login" THEN TRUE
       ELSE IF form.kind = "add" THEN Len(tbl) < MaxRules
       ELSE \E i \in 1..Len(tbl) : deleteField(i) = form.field

\* The router's table after a POST of the form.
RouterApply(form, tbl, out) ==
    IF ~accepts(form, tbl, out) \/ form.kind = "login" THEN tbl
    ELSE IF form.kind = "add"
    THEN Append(tbl, Rule(form.device_select, form.serviceName, form.extMinPort,
                          form.intStartPort))
    ELSE RemoveAt(tbl, CHOOSE i \in 1..Len(tbl) : deleteField(i) = form.field)

\* The result page the follow-up GET shows after a POST of the form.
ResultPage(form, tbl, out) ==
    [transport |-> out # "recheckTransport",
     errorIcon |-> ~accepts(form, tbl, out),
     hasErrorText |-> ~accepts(form, tbl, out),
     errorText |-> IF accepts(form, tbl, out) \/ out = "rejectedNoText" THEN ""
                   ELSE " The request was not applied. "]

\* ------------------------------------------------------------ router client

NoForm == [kind |-> "none"]
Get(path) == [method |-> "GET", path |-> path, form |-> NoForm]
Post(path, form) == [method |-> "POST", path |-> path, form |-> form]

\* What a client call gives back: its error ("" is nil), the requests it
\* sent in order, and the router's table after them.
Result(err, reqs, tbl) == [err |-> err, reqs |-> reqs, table |-> tbl]

\* The cell texts GetForwards collects for one row.
cellTexts(row) == [i \in 1..Len(row) |-> TrimSpace(getTextContent(row[i]))]

\* The Forward GetForwards appends for one row (DevicePort is not read).
rowForward(row) ==
    LET texts == cellTexts(row)
    IN Forward(texts[2], texts[1], texts[3], texts[4], "", texts[5])

\* GetForwards taking a page without the rules table for an empty listing.
GetForwards_NoTableIsEmpty(page) ==
    IF ~page.transport THEN [err |-> "transport", nonce |-> "", forwards |-> <<>>]
    ELSE IF ~page.hasTable
    THEN [err |-> "", nonce |-> extractNonce(page), forwards |-> <<>>]
    ELSE IF \E i \in 2..Len(page.rows) : Len(page.rows[i]) < 5
    THEN [err |-> "panic", nonce |-> "", forwards |-> <<>>]
    ELSE LET forwards == [i \in 1..(Len(page.rows) - 1) |-> rowForward(page.rows[i + 1])]
         IN IF extractNonce(page) = ""
            THEN [err |-> "nonce", nonce |-> "", forwards |-> forwards]
            ELSE [err |-> "", nonce |-> extractNonce(page), forwards |-> forwards]

\* RouterClient.GetForwards on the page its GET returned.
GetForwards(page) ==
    IF ~page.transport THEN [err |-> "transport", nonce |-> "", forwards |-> <<>>]
    ELSE IF ~page.hasTable THEN [err |-> "parse", nonce |-> "", forwards |-> <<>>]
    ELSE IF \E i \in 2..Len(page.rows) : Len(page.rows[i]) < 5
    THEN [err |-> "panic", nonce |-> "", forwards |-> <<>>]
    ELSE LET forwards == [i \in 1..(Len(page.rows) - 1) |-> rowForward(page.rows[i + 1])]
         IN IF extractNonce(page) = ""
            THEN [err |-> "nonce", nonce |-> "", forwards |-> forwards]
            ELSE [err |-> "", nonce |-> extractNonce(page), forwards |-> forwards]

\* doRequest taking the result page for good without looking at it.
doRequest_Unchecked(path, form, tbl, out) ==
    IF out = "postTransport"
    THEN Result("transport", <<Post(path, form)>>, tbl)
    ELSE LET after == RouterApply(form, tbl, out)
             page == ResultPage(form, tbl, out)
             reqs == <<Post(path, form), Get(path)>>
         IN IF ~page.transport THEN Result("transport", reqs, after)
            ELSE Result("", reqs, after)

\* RouterClient.doRequest on a request for `path`: the POST, the GET of the
\* same URL, the scan of the
\* result page for the error banner.
doRequest(path, form, tbl, out) ==
    IF out = "postTransport"
    THEN Result("transport", <<Post(path, form)>>, tbl)
    ELSE LET after == RouterApply(form, tbl, out)
             page == ResultPage(form, tbl, out)
             reqs == <<Post(path, form), Get(path)>>
         IN IF ~page.transport THEN Result("transport", reqs, after)
            ELSE IF page.errorIcon /\ page.hasErrorText /\ TrimSpace(page.errorText) # ""
            THEN Result("remote", reqs, after)
            ELSE Result("", reqs, after)

\* The form RouterClient.AddForward submits.
addForm(nonce, forward) ==
    [kind |-> "add", nonce |-> nonce,
     device_select |-> forward.DeviceName, device_manual |-> forward.DeviceName,
     serviceName |-> forward.ServiceName, service |-> "custom", protocol |-> "both",
     extMinPort |-> forward.Ports, extMaxPort |-> "",
     intStartPort |-> forward.DevicePort, publicip |-> "", Add |-> "Add"]

\* AddForward posting the nonce of the page before its own listing.
AddForward_EarlierNonce(forward, tbl, out, serial) ==
    LET got == GetForwards(ListingPage(tbl, out, serial))
    IN IF got.err # "" THEN Result(got.err, <<Get(ApphostingPath)>>, tbl)
       ELSE LET res == doRequest(ApphostingPath,
                                 addForm(IssuedNonce(serial - 1), forward), tbl, out)
            IN Result(res.err, <<Get(ApphostingPath)>> \o res.reqs, res.table)

\* AddForward submitting its form whatever GetForwards returned.
AddForward_IgnoresListingError(forward, tbl, out, serial) ==
    LET got == GetForwards(ListingPage(tbl, out, serial))
        res == doRequest(ApphostingPath, addForm(got.nonce, forward), tbl,
                         IF got.err # "" THEN "ok" ELSE out)
    IN Result(res.err, <<Get(ApphostingPath)>> \o res.reqs, res.table)

\* RouterClient.AddForward, its listing GET being the serial-th request the
\* router is sent.
AddForward(forward, tbl, out, serial) ==
    LET got == GetForwards(ListingPage(tbl, out, serial))
    IN IF got.err # "" THEN Result(got.err, <<Get(ApphostingPath)>>, tbl)
       ELSE LET res == doRequest(ApphostingPath, addForm(got.nonce, forward), tbl, out)
            IN Result(res.err, <<Get(ApphostingPath)>> \o res.reqs, res.table)

\* The DeleteID of the first listed forward of that service name, "" if none.
findDeleteID(forwards, serviceName) ==
    LET hits == {i \in 1..Len(forwards) : forwards[i].ServiceName = serviceName}
    IN IF hits = {} THEN "" ELSE forwards[SetMin(hits)].DeleteID

\* DeleteForward taking a rule the listing lacks for already deleted.
DeleteForward_AbsentIsDone(forward, tbl, out, serial) ==
    LET got == GetForwards(ListingPage(tbl, out, serial))
        deleteID == findDeleteID(got.forwards, forward.ServiceName)
    IN IF got.err # "" THEN Result(got.err, <<Get(ApphostingPath)>>, tbl)
       ELSE IF deleteID = "" THEN Result("", <<Get(ApphostingPath)>>, tbl)
       ELSE LET form == [kind |-> "delete", nonce |-> got.nonce,
                         field |-> deleteID, value |-> "Delete"]
                res == doRequest(ApphostingPath, form, tbl, out)
            IN Result(res.err, <<Get(ApphostingPath)>> \o res.reqs, res.table)

\* RouterClient.DeleteForward, its listing GET being the serial-th request
\* the router is sent.
DeleteForward(forward, tbl, out, serial) ==
    LET got == GetForwards(ListingPage(tbl, out, serial))
        deleteID == findDeleteID(got.forwards, forward.ServiceName)
    IN IF got.err # "" THEN Result(got.err, <<Get(ApphostingPath)>>, tbl)
       ELSE IF deleteID = "" THEN Result("notfound", <<Get(ApphostingPath)>>, tbl)
       ELSE LET form == [kind |-> "delete", nonce |-> got.nonce,
                         field |-> deleteID, value |-> "Delete"]
                res == doRequest(ApphostingPath, form, tbl, out)
            IN Result(res.err, <<Get(ApphostingPath)>> \o res.reqs, res.table)

\* -------------------------------------------------- controller: handlers

\* One router call as the handler made it: the call, what happened to it on
\* the wire, the router's table when it began, its error, its requests, and
\* which request of those the router was sent its first one is.
Op(name, forward, out, tbl, res, serial) ==
    [op |-> name, forward |-> forward, out |-> out, before |-> tbl,
     err |-> res.err, reqs |-> res.reqs, first |-> serial]

Call(name, forward, tbl, out, serial) ==
    IF name = "AddForward" THEN AddForward(forward, tbl, out, serial)
    ELSE DeleteForward(forward, tbl, out, serial)

\* The request after those of the calls made: the first request of ops[1]
\* and the requests of every call since.
RECURSIVE requestsOf(_)
requestsOf(ops) ==
    IF ops = <<>> THEN 0 ELSE Len(Head(ops).reqs) + requestsOf(Tail(ops))

nextSerial(ops) == IF ops = <<>> THEN 1 ELSE ops[1].first + requestsOf(ops)

\* The loop calling a second time, on the table as the first call left
\* it, for a forward whose call failed.
RECURSIVE forEach_RetryOnce(_, _, _, _, _, _)
forEach_RetryOnce(name, forwards, tbl, outs, fatal, ops) ==
    IF forwards = <<>> THEN [err |-> "", ops |-> ops, table |-> tbl]
    ELSE LET res == Call(name, Head(forwards), tbl, Head(outs), nextSerial(ops))
             done == Append(ops, Op(name, Head(forwards), Head(outs), tbl, res,
                                    nextSerial(ops)))
             retry == Call(name, Head(forwards), res.table, "ok", nextSerial(done))
             again == Append(done, Op(name, Head(forwards), "ok", res.table, retry,
                                      nextSerial(done)))
         IN IF res.err = ""
            THEN forEach_RetryOnce(name, Tail(forwards), res.table, Tail(outs), fatal, done)
            ELSE IF fatal /\ retry.err # ""
            THEN [err |-> retry.err, ops |-> again, table |-> retry.table]
            ELSE forEach_RetryOnce(name, Tail(forwards), retry.table, Tail(outs),
                                   fatal, again)

\* A handler's loop over its forwards, outs[i] being what happens to the
\* i-th call: a fatal loop returns at the first error, the other logs it and
\* goes on.  Gives the error returned, the calls made and the table left.
RECURSIVE forEach(_, _, _, _, _, _)
forEach(name, forwards, tbl, outs, fatal, ops) ==
    IF forwards = <<>> THEN [err |-> "", ops |-> ops, table |-> tbl]
    ELSE LET res == Call(name, Head(forwards), tbl, Head(outs), nextSerial(ops))
             done == Append(ops, Op(name, Head(forwards), Head(outs), tbl, res,
                                    nextSerial(ops)))
         IN IF fatal /\ res.err # ""
            THEN [err |-> res.err, ops |-> done, table |-> res.table]
            ELSE forEach(name, Tail(forwards), res.table, Tail(outs), fatal, done)

\* handleServiceAdd logging a failed add and going on to the next forward.
handleServiceAdd_KeepsGoing(service, tbl, outs) ==
    forEach("AddForward", affectedForwards(service), tbl, outs, FALSE, <<>>)

\* Controller.handleServiceAdd
handleServiceAdd(service, tbl, outs) ==
    forEach("AddForward", affectedForwards(service), tbl, outs, TRUE, <<>>)

\* Controller.handleServiceDelete
handleServiceDelete(service, tbl, outs) ==
    forEach("DeleteForward", affectedForwards(service), tbl, outs, TRUE, <<>>)

\* handleServiceUpdate adding the new forwards before it deletes the old ones.
handleServiceUpdate_AddsFirst(oldService, newService, tbl, outs) ==
    LET oldForwards == affectedForwards(oldService)
        newForwards == affectedForwards(newService)
        added == forEach("AddForward", newForwards, tbl, outs, TRUE, <<>>)
    IN IF added.err # "" THEN added
       ELSE forEach("DeleteForward", oldForwards, added.table,
                    SubSeq(outs, Len(newForwards) + 1, Len(outs)), FALSE, added.ops)

\* handleServiceUpdate returning at the first delete that fails.
handleServiceUpdate_FatalDelete(oldService, newService, tbl, outs) ==
    LET oldForwards == affectedForwards(oldService)
        newForwards == affectedForwards(newService)
        deleted == forEach("DeleteForward", oldForwards, tbl, outs, TRUE, <<>>)
    IN IF deleted.err # "" THEN deleted
       ELSE forEach("AddForward", newForwards, deleted.table,
                    SubSeq(outs, Len(oldForwards) + 1, Len(outs)), TRUE, deleted.ops)

\* Controller.handleServiceUpdate
handleServiceUpdate(oldService, newService, tbl, outs) ==
    LET oldForwards == affectedForwards(oldService)
        newForwards == affectedForwards(newService)
        deleted == forEach("DeleteForward", oldForwards, tbl, outs, FALSE, <<>>)
    IN forEach("AddForward", newForwards, deleted.table,
               SubSeq(outs, Len(oldForwards) + 1, Len(outs)), TRUE, deleted.ops)

\* ------------------------------------------------------------ the system

VARIABLES
    cluster,    \* the services Kubernetes holds: service key -> spec or NoService
    table,      \* the router's forwarding table, the only durable store of rules
    lastEvent,  \* the event the informer delivered last
    lastOps,    \* the router calls the handler made for it, in order
    lastErr,    \* the error the handler logged for it ("" is none)
    allOk,      \* every router call so far met no fault and returned no error
    now,        \* the clock: minutes since the process started
    lastLogin,  \* RouterClient.lastLogin
    sessionMux, \* RouterClient.sessionMux: the goroutine that holds it, or Unlocked
    pc,         \* where each goroutine that uses the session stands
    call,       \* each goroutine's current or last call of Login / EnsureLoggedIn
    derived     \* the forwards derived for a pair of services

eventVars == <<cluster, table, lastEvent, lastOps, lastErr, allOk>>
sessionVars == <<now, lastLogin, sessionMux, pc, call>>
vars == <<eventVars, sessionVars, derived>>

Event(kind, oldService, newService) ==
    [kind |-> kind, old |-> oldService, new |-> newService]

NoEvent == [kind |-> "none"]

\* What may happen to the n router calls of one event: outs[i] to the i-th.
OutsOf(n) ==
    UNION { { [i \in 1..n |-> IF i \in at THEN fault[i] ELSE "ok"] :
                fault \in [at -> Outcomes \ {"ok"}] } :
            at \in {a \in SUBSET (1..n) : Cardinality(a) <= MaxFaults} }

\* The handler made no router call (the event was filtered out).
Ignored(event) ==
    /\ lastEvent' = event
    /\ lastOps' = <<>>
    /\ lastErr' = ""
    /\ UNCHANGED <<table, allOk>>

\* The handler ran the engine, which gave `run`.
Handled(event, run) ==
    /\ lastEvent' = event
    /\ lastOps' = run.ops
    /\ lastErr' = run.err
    /\ table' = run.table
    /\ allOk' = (allOk /\ \A i \in 1..Len(run.ops) :
                                run.ops[i].out = "ok" /\ run.ops[i].err = "")

\* AddFunc without the check of the service type.
AddFunc_AnyType(service) ==
    \E outs \in OutsOf(Len(affectedForwards(service))) :
        Handled(Event("add", service, service), handleServiceAdd(service, table, outs))

\* AddFunc of Controller.Run
AddFunc(service) ==
    IF service.Spec.Type # ServiceTypeNodePort
    THEN Ignored(Event("add", service, service))
    ELSE \E outs \in OutsOf(Len(affectedForwards(service))) :
            Handled(Event("add", service, service), handleServiceAdd(service, table, outs))

\* UpdateFunc of Controller.Run
UpdateFunc(oldService, newService) ==
    IF newService.Spec.Type # ServiceTypeNodePort
    THEN Ignored(Event("update", oldService, newService))
    ELSE IF ~nodePortsChanged(oldService, newService)
    THEN Ignored(Event("update", oldService, newService))
    ELSE \E outs \in OutsOf(Len(affectedForwards(oldService))
                            + Len(affectedForwards(newService))) :
            Handled(Event("update", oldService, newService),
                    handleServiceUpdate(oldService, newService, table, outs))

\* DeleteFunc of Controller.Run
DeleteFunc(service) ==
    IF service.Spec.Type # ServiceTypeNodePort
    THEN Ignored(Event("delete", service, service))
    ELSE \E outs \in OutsOf(Len(affectedForwards(service))) :
            Handled(Event("delete", service, service),
                    handleServiceDelete(service, table, outs))

\* The freshness window of EnsureLoggedIn, in minutes.
FreshWindow == 5

\* time.Time{}, the lastLogin of a client that has not logged in yet.
ZeroTime == -1

\* What time.Since gives for the zero time: the largest Duration, in minutes.
MaxDuration == 153722867

\* time.Since(t) when the clock shows `clock`.
Since(t, clock) == IF t = ZeroTime THEN MaxDuration ELSE clock - t

\* sessionMux held by no goroutine.
Unlocked == "unlocked"

\* The goroutine of main, and the goroutines that call EnsureLoggedIn.
Main == "main"
Callers == {"w1", "w2"}
Procs == {Main} \cup Callers

\* A goroutine's record of its call: the call, time.Since(lastLogin) as
\* EnsureLoggedIn read it, what happens to its login on the wire, the
\* requests sent so far, whether it returned and with which error.
NoCall ==
    [op |-> "none", since |-> 0, out |-> "", reqs |-> <<>>, err |-> "", done |-> FALSE]

\* The events the informer delivered, before the first one.
EventInit ==
    /\ cluster = [key \in ServiceKeys |-> NoService]
    /\ table = <<>>
    /\ lastEvent = NoEvent
    /\ lastOps = <<>>
    /\ lastErr = ""
    /\ allOk = TRUE

\* The session NewRouterClient returns, main about to call Login.
SessionInit ==
    /\ now = 0
    /\ lastLogin = ZeroTime
    /\ sessionMux = Unlocked
    /\ pc = [p \in Procs |-> IF p = Main THEN "startup" ELSE "idle"]
    /\ call = [p \in Procs |-> NoCall]

Init ==
    /\ EventInit
    /\ SessionInit
    /\ derived = <<>>

\* The informer is between two events: the handler of the last one returned.
Idle == lastEvent = NoEvent

\* A service with one of `specs` is created: the informer delivers an add event.
Created(specs) ==
    \E key \in ServiceKeys, spec \in specs :
        /\ Idle
        /\ cluster[key] = NoService
        /\ cluster' = [cluster EXCEPT ![key] = spec]
        /\ AddFunc(Service(key, spec))
        /\ UNCHANGED <<sessionVars, derived>>

\* The controller restarts: the informer lists the services anew and delivers
\* an add event for one that exists already.
ServiceRelisted ==
    \E key \in ServiceKeys :
        /\ Idle
        /\ cluster[key] # NoService
        /\ UNCHANGED cluster
        /\ AddFunc(Service(key, cluster[key]))
        /\ UNCHANGED <<sessionVars, derived>>

\* A service changes to one of `specs`, or the informer resyncs it unchanged:
\* an update event.
Updated(specs) ==
    \E key \in ServiceKeys, spec \in specs :
        /\ Idle
        /\ cluster[key] # NoService
        /\ cluster' = [cluster EXCEPT ![key] = spec]
        /\ UpdateFunc(Service(key, cluster[key]), Service(key, spec))
        /\ UNCHANGED <<sessionVars, derived>>

\* A service is deleted: a delete event carrying its last known spec.
ServiceDeleted ==
    \E key \in ServiceKeys :
        /\ Idle
        /\ cluster[key] # NoService
        /\ cluster' = [cluster EXCEPT ![key] = NoService]
        /\ DeleteFunc(Service(key, cluster[key]))
        /\ UNCHANGED <<sessionVars, derived>>

ServiceCreated == Created(ServiceSpecs)

ServiceUpdated == Updated(ServiceSpecs)

\* The handler returns (its error, if any, is logged and dropped); the
\* informer goes on to the next event.
HandlerReturns ==
    /\ ~Idle
    /\ lastEvent' = NoEvent
    /\ lastOps' = <<>>
    /\ lastErr' = ""
    /\ UNCHANGED <<cluster, table, allOk>>
    /\ UNCHANGED <<sessionVars, derived>>

Next ==
    \/ ServiceCreated
    \/ ServiceRelisted
    \/ ServiceUpdated
    \/ ServiceDeleted
    \/ HandlerReturns

Spec == Init /\ [][Next]_vars

\* -------------------------------------------------- the session: Login

\* How long the clock of the model runs, in minutes.
MaxClock == 7

LoginPath == "/cgi-bin/login.ha"

\* What can happen to one Login on the wire: the outcomes of a call, the GET
\* being that of the login page, which holds no rules table.
LoginOutcomes == Outcomes \ {"noTable"}

\* The page GET login.ha returns.
LoginPage(out) ==
    [transport |-> out # "listTransport",
     nonce |-> IF out = "noNonce" THEN "" ELSE "nonce"]

\* The form Login submits.
loginForm(nonce) ==
    [kind |-> "login", username |-> "admin", password |-> "secret", nonce |-> nonce]

\* Login taking whatever extractNonce gives for the nonce.
fetchLoginPage_AnyNonce(out) ==
    LET page == LoginPage(out)
    IN IF ~page.transport THEN [err |-> "transport", nonce |-> ""]
       ELSE [err |-> "", nonce |-> extractNonce(page)]

\* Login up to the nonce: the GET of the login page, the nonce in it.
fetchLoginPage(out) ==
    LET page == LoginPage(out)
    IN IF ~page.transport THEN [err |-> "transport", nonce |-> ""]
       ELSE IF extractNonce(page) = "" THEN [err |-> "nonce", nonce |-> ""]
       ELSE [err |-> "", nonce |-> extractNonce(page)]

\* EnsureLoggedIn unlocking by hand after a Login that returned nil only.
afterLogin_NoUnlockOnError(p, err) ==
    IF p = Main THEN (IF err = "" THEN "running" ELSE "exited")
    ELSE IF err = "" THEN "unlock" ELSE "idle"

\* Where a goroutine goes on when its Login returned: main exits on an error
\* and runs the controller otherwise, EnsureLoggedIn runs its deferred Unlock.
afterLogin(p, err) ==
    IF p = Main THEN (IF err = "" THEN "running" ELSE "exited") ELSE "unlock"

\* The clock advances (between two events).
Tick ==
    /\ now < MaxClock
    /\ Idle
    /\ now' = now + 1
    /\ UNCHANGED <<lastLogin, sessionMux, pc, call, eventVars, derived>>

\* main calls Login, holding no lock, before it starts the controller.
StartupLogin ==
    /\ pc[Main] = "startup"
    /\ pc' = [pc EXCEPT ![Main] = "fetch"]
    /\ call' = [call EXCEPT ![Main] = [NoCall EXCEPT !.op = "Login"]]
    /\ UNCHANGED <<now, lastLogin, sessionMux, eventVars, derived>>

\* Login, first half: GET the login page and extract the nonce.
LoginFetch(p) ==
    /\ pc[p] = "fetch"
    /\ \E out \in LoginOutcomes :
         LET got == fetchLoginPage(out)
         IN /\ call' = [call EXCEPT ![p].out = out,
                                    ![p].reqs = <<Get(LoginPath)>>,
                                    ![p].err = got.err,
                                    ![p].done = (got.err # "")]
            /\ pc' = [pc EXCEPT ![p] = IF got.err = "" THEN "submit"
                                       ELSE afterLogin(p, got.err)]
    /\ UNCHANGED <<now, lastLogin, sessionMux, eventVars, derived>>

\* Login, second half: doRequest on the credentials form, and lastLogin set
\* to time.Now() when doRequest returned no error.
LoginSubmit(p) ==
    /\ pc[p] = "submit"
    /\ LET nonce == fetchLoginPage(call[p].out).nonce
           res == doRequest(LoginPath, loginForm(nonce), table, call[p].out)
       IN /\ call' = [call EXCEPT ![p].reqs = <<Get(LoginPath)>> \o res.reqs,
                                  ![p].err = res.err,
                                  ![p].done = TRUE]
          /\ lastLogin' = IF res.err = "" THEN now ELSE lastLogin
          /\ table' = res.table
          /\ pc' = [pc EXCEPT ![p] = afterLogin(p, res.err)]
    /\ UNCHANGED <<now, sessionMux, cluster, lastEvent, lastOps, lastErr, allOk, derived>>

\* ------------------------------------------ the session: EnsureLoggedIn

\* A goroutine calls EnsureLoggedIn: it stands at sessionMux.Lock() until
\* the mutex is free.
EnsureLoggedInCalled(p) ==
    /\ pc[p] = "idle"
    /\ pc[Main] = "running"
    /\ pc' = [pc EXCEPT ![p] = "lock"]
    /\ UNCHANGED <<now, lastLogin, sessionMux, call, eventVars, derived>>

\* EnsureLoggedIn logging in at the window's end already.
needsLogin_AtWindow(since) == since >= FreshWindow

\* The freshness test of EnsureLoggedIn.
needsLogin(since) == since > FreshWindow

\* EnsureLoggedIn that takes no lock.
EnsureLoggedIn_NoLock(p) ==
    /\ pc[p] = "lock"
    /\ sessionMux' = p
    /\ LET since == Since(lastLogin, now)
       IN IF needsLogin(since)
          THEN /\ pc' = [pc EXCEPT ![p] = "fetch"]
               /\ call' = [call EXCEPT ![p] = [NoCall EXCEPT !.op = "EnsureLoggedIn",
                                                              !.since = since]]
          ELSE /\ pc' = [pc EXCEPT ![p] = "unlock"]
               /\ call' = [call EXCEPT ![p] = [NoCall EXCEPT !.op = "EnsureLoggedIn",
                                                              !.since = since,
                                                              !.done = TRUE]]
    /\ UNCHANGED <<now, lastLogin, eventVars, derived>>

\* EnsureLoggedIn from the moment Lock returns up to its decision: Login if
\* the last login is older than the window, nil otherwise.
EnsureLoggedIn(p) ==
    /\ pc[p] = "lock"
    /\ sessionMux = Unlocked
    /\ sessionMux' = p
    /\ LET since == Since(lastLogin, now)
       IN IF needsLogin(since)
          THEN /\ pc' = [pc EXCEPT ![p] = "fetch"]
               /\ call' = [call EXCEPT ![p] = [NoCall EXCEPT !.op = "EnsureLoggedIn",
                                                              !.since = since]]
          ELSE /\ pc' = [pc EXCEPT ![p] = "unlock"]
               /\ call' = [call EXCEPT ![p] = [NoCall EXCEPT !.op = "EnsureLoggedIn",
                                                              !.since = since,
                                                              !.done = TRUE]]
    /\ UNCHANGED <<now, lastLogin, eventVars, derived>>

\* The deferred Unlock of EnsureLoggedIn.
Unlock(p) ==
    /\ pc[p] = "unlock"
    /\ sessionMux' = Unlocked
    /\ pc' = [pc EXCEPT ![p] = "idle"]
    /\ UNCHANGED <<now, lastLogin, call, eventVars, derived>>

\* The session client and its callers, the controller left aside.
SessionNext ==
    \/ Tick
    \/ StartupLogin
    \/ \E p \in Procs : LoginFetch(p)
    \/ \E p \in Procs : LoginSubmit(p)
    \/ \E p \in Callers : EnsureLoggedInCalled(p)
    \/ \E p \in Callers : EnsureLoggedIn(p)
    \/ \E p \in Callers : Unlock(p)

SessionSpec == Init /\ [][SessionNext]_vars

\* The session when every request of a Login returns, the goroutines are
\* scheduled, and the mutex hands itself to a goroutine that waits for it
\* (sync.Mutex leaves no waiter starving).
FairSessionSpec ==
    /\ SessionSpec
    /\ \A p \in Procs : WF_vars(LoginFetch(p)) /\ WF_vars(LoginSubmit(p))
    /\ \A p \in Callers : WF_vars(Unlock(p)) /\ SF_vars(EnsureLoggedIn(p))

\* ------------------------------------------------ the program and its session

\* Controller.Run is reached: main's Login returned no error.
Running == pc[Main] = "running"

\* The services of the cluster the program is followed in.
ProgramServiceSpecs ==
    [Type : {ServiceTypeNodePort},
     Ports : { << ServicePort("http", 8080, 8080, 30080) >>,
               << ServicePort("http", 9090, 9090, 30090) >> }]

\* The events, delivered once Controller.Run started the informer.
RunningServiceCreated == Running /\ Created(ProgramServiceSpecs)
RunningServiceRelisted == Running /\ ServiceRelisted
RunningServiceUpdated == Running /\ Updated(ProgramServiceSpecs)
RunningServiceDeleted == Running /\ ServiceDeleted

\* main logs in, then the controller handles the events as time passes.
ProgramNext ==
    \/ Tick
    \/ StartupLogin
    \/ LoginFetch(Main)
    \/ LoginSubmit(Main)
    \/ RunningServiceCreated
    \/ RunningServiceRelisted
    \/ RunningServiceUpdated
    \/ RunningServiceDeleted
    \/ HandlerReturns

ProgramSpec == Init /\ [][ProgramNext]_vars

\* ------------------------------------------------ the names of the forwards

\* Namespaces and names with and without a hyphen.
NamedKeys ==
    { [Namespace |-> "a-b", Name |-> "c"], [Namespace |-> "a", Name |-> "b-c"],
      [Namespace |-> "a", Name |-> "c"], [Namespace |-> "b", Name |-> "c"] }

\* Port lists of NodePort services: one port, two ports, and one port number
\* served over TCP and over UDP (two entries that differ in name and in
\* protocol, a field affectedForwards does not read) behind one node port.
NamedPortLists ==
    { << ServicePort("http", 80, 8080, 30080) >>,
      << ServicePort("http", 80, 8080, 30080), ServicePort("https", 443, 8443, 30443) >>,
      << ServicePort("dns-tcp", 53, 53, 30053), ServicePort("dns-udp", 53, 53, 30053) >> }

NamedServices ==
    { Service(key, [Type |-> ServiceTypeNodePort, Ports |-> ports]) :
        key \in NamedKeys, ports \in NamedPortLists }

\* The controller derives the forwards of two services it was handed.
ForwardsDerived ==
    /\ \E a \in NamedServices, b \in NamedServices :
         derived' = << [service |-> a, forwards |-> affectedForwards(a)],
                       [service |-> b, forwards |-> affectedForwards(b)] >>
    /\ UNCHANGED <<eventVars, sessionVars>>

NamesNext == ForwardsDerived

NamesSpec == Init /\ [][NamesNext]_vars

\* ------------------------------------------------ the client and its nonces

\* How many calls of the router client are followed.
MaxCalls == 3

\* The forward the calls are made for.
CalledForwards ==
    { portForward(Service([Namespace |-> "default", Name |-> "myapp"],
                          [Type |-> ServiceTypeNodePort, Ports |-> <<>>]),
                  ServicePort("http", 8080, 8080, 30080)) }

\* A call of the client is made, the router having been sent the requests of
\* the calls before it; lastOps keeps all of them.
ClientCalls(name) ==
    /\ Len(lastOps) < MaxCalls
    /\ \E forward \in CalledForwards, out \in Outcomes :
         LET serial == nextSerial(lastOps)
             res == Call(name, forward, table, out, serial)
         IN /\ lastOps' = Append(lastOps, Op(name, forward, out, table, res, serial))
            /\ table' = res.table
    /\ UNCHANGED <<cluster, lastEvent, lastErr, allOk, sessionVars, derived>>

ClientAdds == ClientCalls("AddForward")

ClientDeletes == ClientCalls("DeleteForward")

NonceNext ==
    \/ ClientAdds
    \/ ClientDeletes

NonceSpec == Init /\ [][NonceNext]_vars

\* ------------------------------------------------ the detection of changes

\* Port lists of a NodePort service that differ in the name of the port
\* only (a port renamed, a port given a name), in its node port, in its
\* declared port, or in the number of ports.
DetectedPortLists ==
    { << ServicePort("http", 8080, 8080, 30080) >>,
      << ServicePort("web", 8080, 8080, 30080) >>,
      << ServicePort("", 8080, 8080, 30080) >>,
      << ServicePort("http", 8080, 8080, 30081) >>,
      << ServicePort("http", 9090, 8080, 30080) >>,
      << ServicePort("http", 8080, 8080, 30080), ServicePort("web", 80, 8080, 30081) >> }

DetectedServiceSpecs == [Type : {ServiceTypeNodePort}, Ports : DetectedPortLists]

DetectedServiceCreated == Created(DetectedServiceSpecs)

DetectedServiceUpdated == Updated(DetectedServiceSpecs)

\* A NodePort service is created, then updated time and again.
DetectNext ==
    \/ DetectedServiceCreated
    \/ DetectedServiceUpdated
    \/ HandlerReturns

DetectSpec == Init /\ [][DetectNext]_vars

\* ------------------------------------------------ the pages GetForwards reads

\* How many rows below the header the rules table of a page holds.
MaxRows == 3

\* The rows a rules table may hold below its header: the row of a rule, and
\* rows of fewer cells, a placeholder spanning the table in one cell, a row
\* without cell, a row short of its delete button.
ListedRows ==
    { RenderRow(Rule(DeviceName, "default-myapp-8080-30080", "8080", "30080"), 1),
      RenderRow(Rule(DeviceName, "default-myapp-9090-30090", "9090", "30090"), 2),
      << TextCell("No entries defined") >>,
      << >>,
      << TextCell(DeviceName), TextCell(""), TextCell("default-myapp-8080-30080"),
         TextCell("8080") >> }

RECURSIVE RowsUpTo(_)
RowsUpTo(n) ==
    IF n = 0 THEN {<<>>}
    ELSE RowsUpTo(n - 1) \cup
         {Append(rows, row) : rows \in {r \in RowsUpTo(n - 1) : Len(r) = n - 1},
                              row \in ListedRows}

\* Pages that hold the rules table, with and without a nonce.
ListedPages ==
    { [transport |-> TRUE, hasTable |-> TRUE, rows |-> <<HeaderRow>> \o rows,
       nonce |-> nonce] :
        rows \in RowsUpTo(MaxRows), nonce \in {"", IssuedNonce(1)} }

\* GetForwards is run on a page.
PageListed ==
    /\ \E page \in ListedPages :
         derived' = << [page |-> page, got |-> GetForwards(page)] >>
    /\ UNCHANGED <<eventVars, sessionVars>>

PageNext == PageListed

PageSpec == Init /\ [][PageNext]_vars

\* ------------------------------------------------------------ properties

\* The port entries of a service that carry a node port, in port order.
eligiblePorts(service) == SelectSeq(service.Spec.Ports, LAMBDA p : p.NodePort # 0)

\* The internal port the specification gives a port entry: its target port,
\* or its declared port when the target port is unset.
targetOrPort(port) == IF port.TargetPort = 0 THEN port.Port ELSE port.TargetPort

RuleNames == {table[i].serviceName : i \in 1..Len(table)}

\* The names derived from the node ports of the NodePort services that exist.
DesiredNames ==
    UNION { {Service(key, cluster[key]).Namespace \o "-" \o Service(key, cluster[key]).Name
                \o "-" \o Itoa(p.Port) \o "-" \o Itoa(p.NodePort) :
             p \in {cluster[key].Ports[i] :
                      i \in {j \in 1..Len(cluster[key].Ports) :
                               cluster[key].Ports[j].NodePort # 0}}} :
            key \in {k \in ServiceKeys : cluster[k].Type = ServiceTypeNodePort} }

\* C1 (as claimed): after any sequence of add, update and delete events whose
\* router requests all succeed, the rule names of the router's table are
\* exactly the names derived from the nonzero node ports of the NodePort
\* services that exist.
C1_Synchronised == allOk => RuleNames = DesiredNames

\* C2 (as claimed): affectedForwards gives one Forward per port entry with a
\* nonzero NodePort, in port order, with devicePort the decimal NodePort and
\* ports the decimal target port, or the declared port when the target port
\* is unset.
C2_ForwardPerNodePort ==
    ~Idle =>
        LET ports == eligiblePorts(lastEvent.new)
            forwards == affectedForwards(lastEvent.new)
        IN /\ Len(forwards) = Len(ports)
           /\ \A i \in 1..Len(forwards) :
                /\ forwards[i].DevicePort = Itoa(ports[i].NodePort)
                /\ forwards[i].Ports = Itoa(targetOrPort(ports[i]))

\* The AddForward calls of the last event, in order.
LastAdds == SelectSeq(lastOps, LAMBDA o : o.op = "AddForward")

\* The forms a call POSTed.
postedForms(o) ==
    {o.reqs[i].form : i \in {j \in 1..Len(o.reqs) : o.reqs[j].method = "POST"}}

\* C3 (as claimed): the rule submitted for a service port has external port
\* = NodePort and internal port = target port (declared port if unset):
\* extMinPort carries the NodePort, intStartPort the target port.
C3_ExternalIsNodePort ==
    \A i \in 1..Len(LastAdds) :
        \A form \in postedForms(LastAdds[i]) :
            /\ form.extMinPort = Itoa(eligiblePorts(lastEvent.new)[i].NodePort)
            /\ form.intStartPort = Itoa(targetOrPort(eligiblePorts(lastEvent.new)[i]))

\* The node port assignments of a service: name, port and node port of every
\* port entry that carries a node port.
assignments(service) ==
    {<<p.Name, p.Port, p.NodePort>> :
        p \in {service.Spec.Ports[i] : i \in 1..Len(service.Spec.Ports)} \cap
              {q \in {service.Spec.Ports[i] : i \in 1..Len(service.Spec.Ports)} :
                 q.NodePort # 0}}

\* The last event is an update of a service that is of type NodePort after it.
NodePortUpdate ==
    /\ lastEvent.kind = "update"
    /\ lastEvent.new.Spec.Type = ServiceTypeNodePort

\* The calls made are DeleteForward for each of `forwards`, in order.
DeletesOf(ops, forwards) ==
    /\ Len(ops) = Len(forwards)
    /\ \A i \in 1..Len(ops) :
         ops[i].op = "DeleteForward" /\ ops[i].forward = forwards[i]

\* The calls made are AddForward for each of `forwards`, in order.
AddsOf(ops, forwards) ==
    /\ Len(ops) = Len(forwards)
    /\ \A i \in 1..Len(ops) :
         ops[i].op = "AddForward" /\ ops[i].forward = forwards[i]

\* The calls are those of a loop over `forwards` that returns at the first
\* error: a prefix of them, each but the last without error, and short of
\* the whole only when the last one failed.
UntilFirstError(ops, forwards) ==
    /\ Len(ops) <= Len(forwards)
    /\ \A i \in 1..Len(ops) : ops[i].forward = forwards[i]
    /\ \A i \in 1..(Len(ops) - 1) : ops[i].err = ""
    /\ Len(ops) < Len(forwards) => (ops # <<>> /\ ops[Len(ops)].err # "")

\* C4 (as claimed): an update with equal old and new node port assignments
\* issues no call; one with different assignments issues exactly one
\* DeleteForward per old forward and exactly one AddForward per new forward,
\* all deletes before the first add.
C4_UpdateDeletesThenAdds ==
    NodePortUpdate =>
        IF assignments(lastEvent.old) = assignments(lastEvent.new)
        THEN lastOps = <<>>
        ELSE LET nOld == Len(affectedForwards(lastEvent.old))
             IN /\ Len(lastOps) >= nOld
                /\ DeletesOf(SubSeq(lastOps, 1, nOld), affectedForwards(lastEvent.old))
                /\ AddsOf(SubSeq(lastOps, nOld + 1, Len(lastOps)),
                          affectedForwards(lastEvent.new))

\* C4 (amended): an update with equal assignments issues no call; one with
\* different assignments issues exactly one DeleteForward per old forward,
\* then one AddForward per new forward in order up to and including the
\* first that fails (all of them when none fails); every delete precedes
\* the first add.
C4_UpdateDeletesThenAddsUntilError ==
    NodePortUpdate =>
        IF assignments(lastEvent.old) = assignments(lastEvent.new)
        THEN lastOps = <<>>
        ELSE LET nOld == Len(affectedForwards(lastEvent.old))
                 adds == SubSeq(lastOps, nOld + 1, Len(lastOps))
             IN /\ Len(lastOps) >= nOld
                /\ DeletesOf(SubSeq(lastOps, 1, nOld), affectedForwards(lastEvent.old))
                /\ \A i \in 1..Len(adds) : adds[i].op = "AddForward"
                /\ UntilFirstError(adds, affectedForwards(lastEvent.new))

\* C4 witness: an update that changed two forwards into two others made two
\* deletes and two adds.
C4_Witness ==
    /\ NodePortUpdate
    /\ assignments(lastEvent.old) # assignments(lastEvent.new)
    /\ Len(affectedForwards(lastEvent.old)) = 2
    /\ Len(lastOps) = 4
    /\ lastErr = ""

\* The last event is an update the engine handled (handleServiceUpdate ran).
HandledUpdate == NodePortUpdate /\ nodePortsChanged(lastEvent.old, lastEvent.new)

\* The calls of the last event that are not among its first n.
OpsAfter(n) == SubSeq(lastOps, n + 1, Len(lastOps))

\* C5: in an update a failing DeleteForward does not end the event: every
\* old forward is attempted whatever fails, and the adds are attempted even
\* when all deletes failed; the first failing AddForward ends the event and
\* is its error, no add follows it, and no call undoes what was applied (the
\* calls are the deletes of the old forwards followed by adds, nothing else).
C5_UpdateFailureAsymmetry ==
    HandledUpdate =>
        LET oldForwards == affectedForwards(lastEvent.old)
            newForwards == affectedForwards(lastEvent.new)
            adds == OpsAfter(Len(oldForwards))
        IN /\ Len(lastOps) >= Len(oldForwards)
           /\ DeletesOf(SubSeq(lastOps, 1, Len(oldForwards)), oldForwards)
           /\ newForwards # <<>> => adds # <<>>
           /\ \A i \in 1..Len(adds) : adds[i].op = "AddForward"
           /\ UntilFirstError(adds, newForwards)
           /\ lastErr = (IF adds = <<>> THEN "" ELSE adds[Len(adds)].err)

\* C5 witness: both deletes of an update failed, its first add was attempted
\* and failed in turn, ending the event before the second add.
C5_Witness ==
    /\ HandledUpdate
    /\ Len(affectedForwards(lastEvent.old)) = 2
    /\ Len(affectedForwards(lastEvent.new)) = 2
    /\ Len(lastOps) = 3
    /\ lastOps[1].err # "" /\ lastOps[2].err # ""
    /\ lastOps[3].op = "AddForward" /\ lastOps[3].err # ""
    /\ lastErr = lastOps[3].err

\* The rules of that service name in a table.
rulesNamed(tbl, serviceName) == {i \in 1..Len(tbl) : tbl[i].serviceName = serviceName}

\* The last event is an add the engine handled (handleServiceAdd ran).
HandledAdd ==
    lastEvent.kind = "add" /\ lastEvent.new.Spec.Type = ServiceTypeNodePort

\* C6: an add event calls AddForward once per affected forward in port
\* order; the first failing call ends the event with its error and the
\* forwards after it are never attempted; the add path issues no delete, and
\* the forwards the router took before the failure stay in its table.
C6_AddStopsAtFirstError ==
    HandledAdd =>
        /\ \A i \in 1..Len(lastOps) :
             /\ lastOps[i].op = "AddForward"
             /\ \A k \in 1..Len(lastOps[i].reqs) :
                  lastOps[i].reqs[k].form.kind # "delete"
             /\ (lastOps[i].out = "ok" /\ lastOps[i].err = "") =>
                  Cardinality(rulesNamed(table, lastOps[i].forward.ServiceName))
                    > Cardinality(rulesNamed(lastOps[i].before, lastOps[i].forward.ServiceName))
        /\ UntilFirstError(lastOps, affectedForwards(lastEvent.new))
        /\ lastErr = (IF lastOps = <<>> THEN "" ELSE lastOps[Len(lastOps)].err)

\* C6 witness: the first forward of a service was added, the second failed.
C6_Witness ==
    /\ HandledAdd
    /\ Len(lastOps) = 2
    /\ lastOps[1].out = "ok" /\ lastOps[1].err = ""
    /\ lastOps[2].err # ""
    /\ lastErr # ""
    /\ rulesNamed(table, lastOps[1].forward.ServiceName) # {}

\* The last event is a delete the engine handled (handleServiceDelete ran).
HandledDelete ==
    lastEvent.kind = "delete" /\ lastEvent.new.Spec.Type = ServiceTypeNodePort

\* The call's listing loaded: GetForwards gave the forwards and the nonce.
Listed(o) == o.out \notin {"listTransport", "noTable", "noNonce"}

Applied(tbl, forward) ==
    \E i \in 1..Len(tbl) :
        /\ tbl[i].serviceName = forward.ServiceName
        /\ tbl[i].extPort = forward.Ports
        /\ tbl[i].intPort = forward.DevicePort

\* C8 (as claimed): the add path run for a Forward whose service name, ports
\* and device port are a row of the router's listing already takes it for
\* satisfied: it succeeds without a mutating POST and the table is unchanged.
C8_AddIdempotent ==
    \A i \in 1..Len(lastOps) :
        (/\ lastOps[i].op = "AddForward"
         /\ Listed(lastOps[i])
         /\ Applied(lastOps[i].before, lastOps[i].forward)) =>
            /\ lastOps[i].err = ""
            /\ postedForms(lastOps[i]) = {}

\* What the next listForwards observes: GetForwards on the listing of the
\* table as it is.
NextListing == GetForwards(ListingPage(table, "ok", 1)).forwards

\* The last call of the last event was an AddForward that returned no error.
AddSucceededLast ==
    /\ lastOps # <<>>
    /\ lastOps[Len(lastOps)].op = "AddForward"
    /\ lastOps[Len(lastOps)].err = ""

\* C9 (as claimed): after addForward(f) succeeds, the next listForwards holds
\* an observed Forward with the serviceName, ports and devicePort of f and a
\* non-empty deleteID.
C9_RoundTrip ==
    AddSucceededLast =>
        \E i \in 1..Len(NextListing) :
            /\ NextListing[i].ServiceName = lastOps[Len(lastOps)].forward.ServiceName
            /\ NextListing[i].Ports = lastOps[Len(lastOps)].forward.Ports
            /\ NextListing[i].DevicePort = lastOps[Len(lastOps)].forward.DevicePort
            /\ NextListing[i].DeleteID # ""

\* C10: an add, update or delete event whose (new) service is not of type
\* NodePort does not reach the engine: the handler makes no router call,
\* sends no request and leaves the router's table as it was.
C10_OtherTypesIgnored ==
    [][(lastEvent' # NoEvent /\ lastEvent'.new.Spec.Type # ServiceTypeNodePort) =>
          (lastOps' = <<>> /\ lastErr' = "" /\ table' = table)]_vars

\* C10 witness: an update to a LoadBalancer service whose node ports differ
\* from the old ones arrived while the router held rules, and was ignored.
C10_Witness ==
    /\ lastEvent.kind = "update"
    /\ lastEvent.new.Spec.Type = "LoadBalancer"
    /\ lastEvent.old.Spec.Type = ServiceTypeNodePort
    /\ nodePortsChanged(lastEvent.old, lastEvent.new)
    /\ table # <<>>
    /\ lastOps = <<>>

\* No port entry of the service carries a node port (or it has no port).
NoNodePorts(service) ==
    \A i \in 1..Len(service.Spec.Ports) : service.Spec.Ports[i].NodePort = 0

\* C11 (as claimed): for a NodePort service in which every port has NodePort
\* 0, or which has no port, the affected forwards are none and an add,
\* update or delete event for it makes no router call, hence no request.
C11_NoNodePortsNoRequest ==
    (/\ ~Idle
     /\ lastEvent.new.Spec.Type = ServiceTypeNodePort
     /\ NoNodePorts(lastEvent.new)) =>
        /\ affectedForwards(lastEvent.new) = <<>>
        /\ lastOps = <<>>

\* C11 (amended): the same for an add event, a delete event, and an update
\* event whose old spec carries no node port either; an update from a spec
\* with node ports deletes the forwards of the old spec.
C11_NoNodePortsBeforeAndAfterNoRequest ==
    (/\ ~Idle
     /\ lastEvent.new.Spec.Type = ServiceTypeNodePort
     /\ NoNodePorts(lastEvent.new)
     /\ NoNodePorts(lastEvent.old)) =>
        /\ affectedForwards(lastEvent.new) = <<>>
        /\ affectedForwards(lastEvent.old) = <<>>
        /\ lastOps = <<>>

\* C11 witness: an update changed the ports of a NodePort service that had
\* and has no node port, and no call was made.
C11_Witness ==
    /\ lastEvent.kind = "update"
    /\ lastEvent.new.Spec.Type = ServiceTypeNodePort
    /\ lastEvent.old.Spec.Type = ServiceTypeNodePort
    /\ lastEvent.old.Spec.Ports # lastEvent.new.Spec.Ports
    /\ lastEvent.new.Spec.Ports # <<>>
    /\ NoNodePorts(lastEvent.new)
    /\ NoNodePorts(lastEvent.old)
    /\ lastOps = <<>>

\* Where a derived forward comes from: the service and the port entry.
origin(i, m) ==
    <<derived[i].service.Namespace, derived[i].service.Name, m>>

\* C12 (as claimed): two distinct forwards the system creates, two port
\* entries of one service or entries of two different services, never have
\* the same serviceName.
C12_ServiceNameUnique ==
    \A i \in 1..Len(derived), j \in 1..Len(derived) :
        \A m \in 1..Len(derived[i].forwards), n \in 1..Len(derived[j].forwards) :
            origin(i, m) # origin(j, n) =>
                derived[i].forwards[m].ServiceName # derived[j].forwards[n].ServiceName

\* C13 (as claimed): an event that leads to router operations first ensures
\* authentication, so that no list, add or delete request is sent on a
\* session whose last login is more than the window old: whenever a handler
\* made router calls, the last login is at most 5 minutes old.
C13_AuthenticatedBeforeOperations ==
    (~Idle /\ lastOps # <<>>) => Since(lastLogin, now) <= FreshWindow

\* The goroutine's call went into Login: it is in it, or has sent requests.
LoginInvoked(p) == pc[p] \in {"fetch", "submit"} \/ call[p].reqs # <<>>

\* The goroutine takes the step in which its EnsureLoggedIn, the mutex
\* locked, reads lastLogin and decides.
EnsureLoggedInBegins(p) == pc[p] = "lock" /\ pc'[p] # "lock"

\* C14: EnsureLoggedIn invokes Login if and only if the time since the last
\* login is strictly greater than 5 minutes; otherwise it sends no request,
\* returns nil and leaves lastLogin as it was.
C14_LoginIffStale ==
    /\ [](\A p \in Callers :
            call[p].op = "EnsureLoggedIn" =>
                /\ LoginInvoked(p) <=> call[p].since > FreshWindow
                /\ ~LoginInvoked(p) => (call[p].done /\ call[p].err = ""))
    /\ [][\A p \in Callers :
            EnsureLoggedInBegins(p) =>
                IF Since(lastLogin, now) > FreshWindow
                THEN pc'[p] = "fetch"
                ELSE /\ pc'[p] = "unlock"
                     /\ call'[p].reqs = <<>>
                     /\ lastLogin' = lastLogin]_vars

\* C14 witness: one caller found the last login exactly 5 minutes old and
\* sent nothing, another found it 6 minutes old and sent the login requests.
C14_Witness ==
    \E p \in Callers, q \in Callers :
        /\ call[p].op = "EnsureLoggedIn" /\ call[p].since = FreshWindow
        /\ call[p].done /\ call[p].reqs = <<>>
        /\ call[q].op = "EnsureLoggedIn" /\ call[q].since = FreshWindow + 1
        /\ call[q].reqs # <<>>

\* The requests hold a POST.
hasPost(reqs) == \E i \in 1..Len(reqs) : reqs[i].method = "POST"

\* The goroutine takes the step in which its Login returns.
LoginReturns(p) == pc[p] \in {"fetch", "submit"} /\ pc'[p] \notin {"fetch", "submit"}

\* C15: Login on a page without nonce field fails with the nonce error, sends
\* no POST and leaves lastLogin as it was; a Login that returns nil sets
\* lastLogin to the current time, and an EnsureLoggedIn called within 5
\* minutes of that time sends nothing and returns nil.
C15_LoginNonceAndTimestamp ==
    /\ [](\A p \in Procs :
            call[p].out = "noNonce" =>
                /\ ~hasPost(call[p].reqs)
                /\ call[p].done /\ call[p].err = "nonce")
    /\ [][\A p \in Procs :
            /\ (LoginReturns(p) /\ call'[p].err # "") => lastLogin' = lastLogin
            /\ (LoginReturns(p) /\ call'[p].err = "") => lastLogin' = now
            /\ (EnsureLoggedInBegins(p) /\ lastLogin # ZeroTime
                   /\ now - lastLogin <= FreshWindow) =>
                  (call'[p].done /\ call'[p].err = "" /\ call'[p].reqs = <<>>)]_vars

\* C15 witness: main's Login returned nil, a caller of EnsureLoggedIn within
\* the window sent nothing, and the Login of a later caller met a page
\* without nonce and failed.
C15_Witness ==
    /\ call[Main].done /\ call[Main].err = ""
    /\ \E p \in Callers, q \in Callers :
         /\ call[p].op = "EnsureLoggedIn" /\ call[p].done /\ call[p].reqs = <<>>
         /\ call[q].out = "noNonce" /\ call[q].err = "nonce"
         /\ call[q].reqs = <<Get(LoginPath)>>
         /\ lastLogin # now

LoginBanner(p) ==
    LET page == ResultPage(loginForm(fetchLoginPage(call[p].out).nonce), table, call[p].out)
    IN page.errorIcon /\ page.hasErrorText /\ TrimSpace(page.errorText) # ""

listing(o) == GetForwards(ListingPage(o.before, o.out, o.first))

\* C17: GetForwards on a page without the rules table fails with the parse
\* error, and the call ends there; on a page that holds the table with the
\* header row only, and a nonce, it succeeds with no forward: the call goes
\* on, a DeleteForward to its not-found error, an AddForward to its POST.
C17_NoTableIsNotEmpty ==
    \A i \in 1..Len(lastOps) :
        /\ lastOps[i].out = "noTable" =>
             /\ listing(lastOps[i]).err = "parse"
             /\ lastOps[i].err = "parse"
             /\ lastOps[i].reqs = <<Get(ApphostingPath)>>
        /\ (lastOps[i].out = "ok" /\ lastOps[i].before = <<>>) =>
             /\ listing(lastOps[i]).err = ""
             /\ listing(lastOps[i]).forwards = <<>>
             /\ lastOps[i].err # "parse"
             /\ lastOps[i].op = "DeleteForward" => lastOps[i].err = "notfound"
             /\ lastOps[i].op = "AddForward" => hasPost(lastOps[i].reqs)

\* C17 witness: in one event a call listed the empty table and went on, and
\* another met a page without the table and failed with the parse error.
C17_Witness ==
    \E i \in 1..Len(lastOps), j \in 1..Len(lastOps) :
        /\ lastOps[i].out = "ok" /\ lastOps[i].before = <<>>
        /\ lastOps[i].err = "notfound"
        /\ lastOps[j].out = "noTable" /\ lastOps[j].err = "parse"

\* The result page of the POST a call sent.
resultPage(o) ==
    ResultPage(CHOOSE form \in postedForms(o) : TRUE, o.before, o.out)

\* C18 (as claimed): every mutating POST that reaches the router is followed
\* by exactly one GET of the same URL, and when that GET loads, the
\* operation fails if and only if the result page carries the error
\* indicator, its error text missing or empty included.
C18_FailsIffErrorIndicator ==
    \A i \in 1..Len(lastOps) :
        (hasPost(lastOps[i].reqs) /\ lastOps[i].out # "postTransport") =>
            /\ Len(lastOps[i].reqs) = 3
            /\ lastOps[i].reqs[2].method = "POST"
            /\ lastOps[i].reqs[3] = Get(lastOps[i].reqs[2].path)
            /\ lastOps[i].out # "recheckTransport" =>
                 (lastOps[i].err # "" <=> resultPage(lastOps[i]).errorIcon)

\* No call sent a request twice: at most the listing GET, one POST and the
\* GET that follows it.
NoRequestTwice ==
    \A i \in 1..Len(lastOps) :
        /\ Len(lastOps[i].reqs) <= 3
        /\ Cardinality({k \in 1..Len(lastOps[i].reqs) :
                           lastOps[i].reqs[k].method = "POST"}) <= 1

\* The forwards the handler of the last event has to call the router for.
forwardsToCall ==
    IF lastEvent.new.Spec.Type # ServiceTypeNodePort THEN <<>>
    ELSE IF lastEvent.kind # "update" THEN affectedForwards(lastEvent.new)
    ELSE IF ~nodePortsChanged(lastEvent.old, lastEvent.new) THEN <<>>
    ELSE affectedForwards(lastEvent.old) \o affectedForwards(lastEvent.new)

\* C19: no call and no request of an event is made again, whatever failed:
\* the i-th call of the event is for the i-th forward the handler has to
\* call the router for, and sends each of its requests once; the failure is
\* reported once, as the error of the event, by the call that failed; and an
\* event is handled, beginning with the call for its first forward,
\* whatever failed in the events before it.
C19_NoRetryAndIsolation ==
    /\ ~Idle =>
         LET forwards == forwardsToCall
         IN /\ Len(lastOps) <= Len(forwards)
            /\ \A i \in 1..Len(lastOps) : lastOps[i].forward = forwards[i]
            /\ forwards # <<>> => lastOps # <<>>
    /\ NoRequestTwice
    /\ lastErr # "" => (lastOps # <<>> /\ lastOps[Len(lastOps)].err = lastErr)

\* C19 witness: after an event that failed, a later event made its calls and
\* all of them succeeded.
C19_Witness ==
    /\ ~allOk
    /\ ~Idle
    /\ lastOps # <<>>
    /\ lastErr = ""
    /\ \A i \in 1..Len(lastOps) : lastOps[i].out = "ok" /\ lastOps[i].err = ""

\* The goroutines inside Login.
InLogin == {p \in Procs : pc[p] \in {"fetch", "submit"}}

\* C20: at most one Login is in flight at any time, whatever the
\* interleaving of main's start-up Login and the callers of EnsureLoggedIn.
C20_OneLoginInFlight == Cardinality(InLogin) <= 1

\* C20 witness: a caller of EnsureLoggedIn is inside Login, holding the
\* lock, while the other caller waits for the lock on the same stale session.
C20_Witness ==
    \E p \in Callers, q \in Callers :
        /\ p # q
        /\ pc[p] = "submit" /\ sessionMux = p
        /\ pc[q] = "lock"
        /\ needsLogin(Since(lastLogin, now))

\* The step writes lastLogin.
WritesLastLogin == lastLogin' # lastLogin

\* The other caller's EnsureLoggedIn found the session stale, logged in with
\* success and set lastLogin this very minute.
JustLoggedIn(q) ==
    /\ call[q].op = "EnsureLoggedIn"
    /\ call[q].since > FreshWindow
    /\ call[q].done /\ call[q].err = ""
    /\ lastLogin = now

\* C21 (as claimed): lastLogin is written only while sessionMux is held, and
\* EnsureLoggedIn reads it for the freshness test holding sessionMux; hence
\* of two callers of EnsureLoggedIn that meet a stale session, the second
\* to take the lock after the first one's Login succeeded performs no login.
C21_LastLoginUnderLock ==
    [][/\ WritesLastLogin => sessionMux # Unlocked
       /\ \A p \in Callers : EnsureLoggedInBegins(p) => sessionMux' = p
       /\ \A p \in Callers :
            (EnsureLoggedInBegins(p) /\ \E q \in Callers \ {p} : JustLoggedIn(q)) =>
                (pc'[p] = "unlock" /\ call'[p].reqs = <<>>)]_vars

\* The mutating POSTs of the calls made: <<i, k>> for the k-th request of
\* the i-th call.
MutatingPosts ==
    {ik \in UNION {{<<i, k>> : k \in 1..Len(lastOps[i].reqs)} : i \in 1..Len(lastOps)} :
        /\ lastOps[ik[1]].reqs[ik[2]].method = "POST"
        /\ lastOps[ik[1]].reqs[ik[2]].form.kind \in {"add", "delete"}}

\* Which request of those the router was sent the k-th request of the i-th
\* call is.
requestSerial(ik) == lastOps[ik[1]].first + ik[2] - 1

\* The nonce a POST carried.
postedNonce(ik) == lastOps[ik[1]].reqs[ik[2]].form.nonce

\* C22: every AddForward and DeleteForward begins with its own listing GET
\* and sends its mutating POST, if any, after it and with the nonce of the
\* page that GET returned; no nonce is sent in two mutating POSTs, and the
\* nonce of a mutating POST was issued after every earlier mutating POST.
C22_NonceFromOwnListing ==
    /\ \A i \in 1..Len(lastOps) :
         /\ lastOps[i].reqs # <<>>
         /\ lastOps[i].reqs[1] = Get(ApphostingPath)
    /\ \A ik \in MutatingPosts :
         /\ ik[2] = 2
         /\ postedNonce(ik) # ""
         /\ postedNonce(ik) =
              extractNonce(ListingPage(lastOps[ik[1]].before, lastOps[ik[1]].out,
                                       lastOps[ik[1]].first))
    /\ \A ik \in MutatingPosts, jm \in MutatingPosts :
         /\ ik # jm => postedNonce(ik) # postedNonce(jm)
         /\ requestSerial(ik) < requestSerial(jm) =>
              \E serial \in (requestSerial(ik) + 1)..(requestSerial(jm) - 1) :
                  postedNonce(jm) = IssuedNonce(serial)

\* C22 witness: three calls, two adds and a delete, each sent its mutating
\* POST, the first of them refused by the router.
C22_Witness ==
    /\ Len(lastOps) = 3
    /\ Cardinality(MutatingPosts) = 3
    /\ lastOps[1].op = "AddForward" /\ lastOps[1].err = "remote"
    /\ lastOps[2].op = "AddForward" /\ lastOps[2].err = ""
    /\ lastOps[3].op = "DeleteForward" /\ lastOps[3].err = ""

\* The affected forwards of a service, as a set.
forwardSet(service) ==
    {affectedForwards(service)[i] : i \in 1..Len(affectedForwards(service))}

\* C23 (as claimed): for an update between two specs of type NodePort the
\* engine makes router calls if and only if the affected forwards of the old
\* spec differ from those of the new one: a change of port names only makes
\* none, and a change of a node port or of a declared port is never missed.
C23_ChangeDetectionExact ==
    (NodePortUpdate /\ lastEvent.old.Spec.Type = ServiceTypeNodePort) =>
        (lastOps # <<>> <=> forwardSet(lastEvent.old) # forwardSet(lastEvent.new))

\* The listing step of the call failed: the GET failed at transport level,
\* or the page it returned lacks the rules table or the nonce.
ListingFailed(o) == o.out \in {"listTransport", "noTable", "noNonce"}

\* The router's table when the i-th call of those made had returned.
tableAfter(i) == IF i < Len(lastOps) THEN lastOps[i + 1].before ELSE table

\* C24: an AddForward or DeleteForward whose listing step fails returns an
\* error having sent the listing GET and nothing else, no mutating POST, and
\* the router's table is after the call what it was before.
C24_ListingFailureSendsNoPost ==
    \A i \in 1..Len(lastOps) :
        ListingFailed(lastOps[i]) =>
            /\ lastOps[i].err # ""
            /\ lastOps[i].err = listing(lastOps[i]).err
            /\ lastOps[i].reqs = <<Get(ApphostingPath)>>
            /\ tableAfter(i) = lastOps[i].before

\* C24 witness: with a rule in the router's table, an AddForward met a page
\* without nonce and a DeleteForward a page without the rules table; both
\* failed and the rule is still there.
C24_Witness ==
    /\ Len(lastOps) = 3
    /\ lastOps[2].op = "AddForward" /\ lastOps[2].out = "noNonce"
    /\ lastOps[2].err = "nonce"
    /\ lastOps[3].op = "DeleteForward" /\ lastOps[3].out = "noTable"
    /\ lastOps[3].err = "parse"
    /\ Len(lastOps[2].before) = 1
    /\ table = lastOps[2].before

\* The goroutine's EnsureLoggedIn went into Login, and Login failed.
LoginFailed(p) ==
    call[p].op = "EnsureLoggedIn" /\ call[p].done /\ call[p].err # ""

\* C25: EnsureLoggedIn releases sessionMux on every exit path.  A Login that
\* fails, at transport level, for want of a nonce or on the router's error
\* banner, leaves lastLogin as it was and takes EnsureLoggedIn to its
\* deferred Unlock; the mutex is then released, a caller that waits for it
\* gets it, and the caller that takes it first after the failure, not
\* having called before, goes into Login again.
C25_LockReleasedOnFailure ==
    /\ [][\A p \in Callers :
            /\ (LoginReturns(p) /\ call'[p].err # "") =>
                 (lastLogin' = lastLogin /\ pc'[p] = "unlock" /\ sessionMux' = p)
            /\ (EnsureLoggedInBegins(p) /\ call[p] = NoCall
                  /\ \E q \in Callers \ {p} : LoginFailed(q)) => pc'[p] = "fetch"]_vars
    /\ \A p \in Callers : (sessionMux = p) ~> (sessionMux # p)
    /\ \A p \in Callers : (pc[p] = "lock") ~> (sessionMux = p)

\* C25 witness: a caller's Login failed on the router's error banner, the
\* mutex was released, and the other caller, who had waited, is in Login.
C25_Witness ==
    \E p \in Callers, q \in Callers :
        /\ p # q
        /\ LoginFailed(p) /\ call[p].err = "remote" /\ pc[p] = "idle"
        /\ sessionMux = q /\ pc[q] = "fetch"
        /\ lastLogin = 0

\* C26 (as claimed): on every page that holds the rules table GetForwards
\* returns, with its forwards or with an error value: a row below the
\* header that has fewer than five cells does not abort it.
C26_ListingNeverAborts ==
    \A i \in 1..Len(derived) :
        derived[i].page.hasTable => derived[i].got.err \in {"", "nonce"}

====
